---- MODULE Spec2Model ----
(***************************************************************************)
(* A model of antismash.common.subprocessing.hmmscan and .hmmsearch: the   *)
(* wrappers that run HMMer's hmmscan / hmmsearch as a subprocess and then  *)
(* repeat the search through pyhmmer for comparison.                       *)
(*                                                                         *)
(* Text (str) is a sequence of one-character strings, so that strip,       *)
(* splitlines, startswith and slicing are computed as Python computes      *)
(* them.  Command-line arguments are whole strings.                        *)
(***************************************************************************)
EXTENDS Integers, Sequences, FiniteSets, TLC

VARIABLES
    pc,          \* per caller: the position inside the function it is running
    loc,         \* per caller: the arguments and locals of the running call
    outcome,     \* per caller: what the call gave back (returned / raised)
    launched,    \* per caller: the command vectors this call handed to execute()
    written,     \* per caller: the names of the files this call wrote, in order
    help_text,   \* run_hmmscan_help.help_text, the cached help output ('' if unset)
    probes,      \* the stdout of every "hmmscan -h" run so far, in order
    ncalls,      \* how many calls the process has started
    timers,      \* the module-level accumulators hmmscan_time, pyhmmscan_time, ...
    results_fs,  \* the caller's results file: whether it exists, and its content
    cwd,         \* the process's current working directory
    tmp_live,    \* whether the scoped temporary directory currently exists
    config,      \* get_config(): cpus and the hmmer3.multithreading toggle
    tool_help,   \* the texts a run of "hmmscan -h" may print in this process
    search_probes, \* how many runs of "hmmsearch -h" there have been
    added,       \* per accumulator: the sum of the elapsed times calls added to it
    fe_input,    \* the list of lines given to _find_error (pure-function check)
    fe_output,   \* what _find_error returned for fe_input
    fe_done      \* whether _find_error has been applied to fe_input

vars == <<pc, loc, outcome, launched, written, help_text, probes, ncalls,
          timers, results_fs, cwd, tmp_live, config, tool_help, search_probes,
          added, fe_input, fe_output, fe_done>>

callVars == <<pc, loc, outcome, launched, written, help_text, probes, ncalls,
              timers, results_fs, cwd, tmp_live, config, tool_help, search_probes,
              added>>

\* the installed binary, the count of hmmsearch probes and the history of the
\* accumulators: what few steps touch
auxVars == <<tool_help, search_probes, added>>

feVars == <<fe_input, fe_output, fe_done>>

----------------------------------------------------------------------------
(* Bounds of the model *)

\* calls one process makes
MaxCalls == 2

\* lines in a list given to _find_error
MaxLines == 3

----------------------------------------------------------------------------
(* Python's str operations on text *)

\* the characters str.strip() removes
Whitespace == {" ", "\t", "\n", "\r"}

\* the line boundaries str.splitlines() splits at
LineBreaks == {"\n", "\r"}

\* s[:n]
Take(s, n) == SubSeq(s, 1, IF Len(s) < n THEN Len(s) ELSE n)

\* s[n:] for a 0-based n: drops the first n elements
Drop(s, n) == SubSeq(s, n + 1, Len(s))

\* s.startswith(prefix)
startswith(s, prefix) == Len(s) >= Len(prefix) /\ SubSeq(s, 1, Len(prefix)) = prefix

\* sub in s
contains(s, sub) ==
    \E i \in 0..(Len(s) - Len(sub)) : SubSeq(s, i + 1, i + Len(sub)) = sub

RECURSIVE lstrip(_)
lstrip(s) ==
    IF s # <<>> /\ Head(s) \in Whitespace THEN lstrip(Tail(s)) ELSE s

RECURSIVE rstrip(_)
rstrip(s) ==
    IF s # <<>> /\ s[Len(s)] \in Whitespace THEN rstrip(SubSeq(s, 1, Len(s) - 1)) ELSE s

\* a plausible slip: the line is used as it is
strip_omitted(s) == s

\* s.strip()
strip(s) == rstrip(lstrip(s))

RECURSIVE splitlines_from(_, _, _, _)
splitlines_from(s, i, cur, acc) ==
    IF i > Len(s)
    THEN IF cur = <<>> THEN acc ELSE Append(acc, cur)
    ELSE IF s[i] = "\r" /\ i < Len(s) /\ s[i + 1] = "\n"
    THEN splitlines_from(s, i + 2, <<>>, Append(acc, cur))
    ELSE IF s[i] \in LineBreaks
    THEN splitlines_from(s, i + 1, <<>>, Append(acc, cur))
    ELSE splitlines_from(s, i + 1, Append(cur, s[i]), acc)

\* s.splitlines(): no empty last line after a final line break, [] for ''
splitlines(s) == splitlines_from(s, 1, <<>>, <<>>)

RECURSIVE split_on_from(_, _, _, _, _)
split_on_from(s, sep, i, cur, acc) ==
    IF i > Len(s) THEN Append(acc, cur)
    ELSE IF s[i] = sep
    THEN split_on_from(s, sep, i + 1, <<>>, Append(acc, cur))
    ELSE split_on_from(s, sep, i + 1, Append(cur, s[i]), acc)

\* s.split(sep) for a one-character sep: always at least one piece
split_on(s, sep) == split_on_from(s, sep, 1, <<>>, <<>>)

RECURSIVE split_fields_from(_, _, _, _)
split_fields_from(s, i, cur, acc) ==
    IF i > Len(s)
    THEN IF cur = <<>> THEN acc ELSE Append(acc, cur)
    ELSE IF s[i] \in Whitespace
    THEN split_fields_from(s, i + 1, <<>>, IF cur = <<>> THEN acc ELSE Append(acc, cur))
    ELSE split_fields_from(s, i + 1, Append(cur, s[i]), acc)

\* s.split(): the whitespace-separated fields, none of them empty
split_fields(s) == split_fields_from(s, 1, <<>>, <<>>)

\* a or b, for two str
str_or(a, b) == IF a # <<>> THEN a ELSE b

----------------------------------------------------------------------------
(* _find_error *)

ErrorToken ==
    <<"E", "r", "r", "o", "r", ":">>

UnknownError ==
    <<"u", "n", "k", "n", "o", "w", "n", " ", "e", "r", "r", "o", "r">>

\* a plausible slip: the first loop never matches
first_error_line_none(output, i) == 0

RECURSIVE first_error_line(_, _)
\* the first loop: the index (from i on) of the first line that starts with
\* "Error:", 0 when the loop falls through
first_error_line(output, i) ==
    IF i > Len(output) THEN 0
    ELSE IF startswith(output[i], ErrorToken) THEN i
    ELSE first_error_line(output, i + 1)

RECURSIVE first_non_empty(_, _)
\* the second loop and the default
first_non_empty(output, i) ==
    IF i > Len(output) THEN UnknownError
    ELSE IF strip(output[i]) # <<>> THEN strip(output[i])
    ELSE first_non_empty(output, i + 1)

_find_error(output) ==
    LET i == first_error_line(output, 1)
    IN  IF i # 0
        THEN IF i + 1 <= Len(output)
             THEN strip(output[i]) \o <<" ">> \o strip(output[i + 1])
             ELSE strip(output[i])
        ELSE first_non_empty(output, 1)

----------------------------------------------------------------------------
(* The collaborators: configuration, process runner, parser *)

\* config.executables.hmmscan and config.executables.hmmsearch
HmmscanExe == "/usr/bin/hmmscan"

HmmsearchExe == "/usr/bin/hmmsearch"

\* os.devnull
DevNull == "/dev/null"

\* the configurations get_config() may hold: the worker count, and whether
\* multithreading is left on (hmmer3.multithreading unset, or set and true)
Configs ==
    { [cpus |-> 1, multithreading |-> TRUE],
      [cpus |-> 4, multithreading |-> FALSE] }

\* RunResult.successful(): the exit code is zero
successful(rc) == rc = 0

\* the exit codes the process runner reports
RetCodes == {0, 1, 2}

QueryToken ==
    <<"Q", "u", "e", "r", "y", ":">>

RECURSIVE parse_records(_, _, _)
parse_records(lines, i, acc) ==
    IF i > Len(lines) THEN acc
    ELSE IF startswith(lines[i], QueryToken)
    THEN parse_records(lines, i + 1,
                       Append(acc, [id |-> strip(Drop(lines[i], Len(QueryToken)))]))
    ELSE parse_records(lines, i + 1, acc)

\* SearchIO.parse(handle, 'hmmer3-text'): one QueryResult per "Query:" line of
\* the report, in the order of the text
parse_hmmer3_text(text) == parse_records(splitlines(text), 1, <<>>)

RECURSIVE parse_rows(_, _, _)
parse_rows(lines, i, acc) ==
    IF i > Len(lines) THEN acc
    ELSE IF strip(lines[i]) = <<>> \/ lines[i][1] = "#"
    THEN parse_rows(lines, i + 1, acc)
    ELSE parse_rows(lines, i + 1, Append(acc, [id |-> split_fields(lines[i])[1]]))

\* SearchIO.parse("result.domtab", 'hmmsearch3-domtab'): one record per table
\* row, comment rows skipped
parse_domtab(text) == parse_rows(splitlines(text), 1, <<>>)

----------------------------------------------------------------------------
(* The texts the model draws its inputs from *)

Banner ==
    <<"#", " ", "h", "m", "m", "s", "c", "a", "n">>

CpuToken ==
    <<" ", "-", "-", "c", "p", "u", " ">>

HelpCpu ==
    <<"#", " ", "h", "m", "m", "s", "c", "a", "n", " ", ":", ":", " ", "x", "\n", "#", " ", "H", "M", "M", "E", "R", " ", "3", ".", "3", " ", "(", "2", "0", "1", "9", ")", "\n", " ", " ", "-", "-", "c", "p", "u", " ", "<", "n", ">", " ", ":", " ", "w", "o", "r", "k", "e", "r", "s", "\n">>

HelpNoCpu ==
    <<"#", " ", "h", "m", "m", "s", "c", "a", "n", " ", ":", ":", " ", "x", "\n", "#", " ", "H", "M", "M", "E", "R", " ", "3", ".", "1", "b", "2", " ", "(", "2", "0", "1", "5", ")", "\n", " ", " ", "-", "h", " ", ":", " ", "h", "e", "l", "p", "\n">>

HelpBad ==
    <<"s", "h", ":", " ", "h", "m", "m", "s", "c", "a", "n", ":", " ", "n", "o", "t", " ", "f", "o", "u", "n", "d", "\n">>

\* what "hmmscan -h" may print
HelpTexts == {HelpCpu, HelpNoCpu, HelpBad, <<>>}

\* a help text that is the banner and nothing else
HelpNoLine ==
    <<"#", " ", "h", "m", "m", "s", "c", "a", "n">>

\* a help text whose second line is empty
HelpOneLine ==
    <<"#", " ", "h", "m", "m", "s", "c", "a", "n", " ", ":", ":", " ", "x", "\n">>

\* a help text whose second line has two fields
HelpTwoFields ==
    <<"#", " ", "h", "m", "m", "s", "c", "a", "n", " ", ":", ":", " ", "x", "\n", "#", " ", "H", "M", "M", "E", "R", "\n">>

\* "# hmmsearch"
SearchBanner ==
    <<"#", " ", "h", "m", "m", "s", "e", "a", "r", "c", "h">>

SearchHelp ==
    <<"#", " ", "h", "m", "m", "s", "e", "a", "r", "c", "h", " ", ":", ":", " ", "s", "\n", "#", " ", "H", "M", "M", "E", "R", " ", "3", ".", "3", " ", "(", "2", "0", "1", "9", ")", "\n">>

SearchHelpBad ==
    <<"s", "h", ":", " ", "h", "m", "m", "s", "e", "a", "r", "c", "h", ":", " ", "n", "o", "t", " ", "f", "o", "u", "n", "d", "\n">>

SearchHelpNoLine ==
    <<"#", " ", "h", "m", "m", "s", "e", "a", "r", "c", "h">>

SearchHelpOneLine ==
    <<"#", " ", "h", "m", "m", "s", "e", "a", "r", "c", "h", " ", ":", ":", " ", "s", "\n">>

SearchHelpTwoFields ==
    <<"#", " ", "h", "m", "m", "s", "e", "a", "r", "c", "h", " ", ":", ":", " ", "s", "\n", "#", " ", "H", "M", "M", "E", "R", "\n">>

\* help texts of hmmscan that pass the banner check and hold no version
MalformedHelpTexts == {HelpNoLine, HelpOneLine, HelpTwoFields}

\* what "hmmsearch -h" may print
SearchHelpTexts ==
    {SearchHelp, SearchHelpBad, SearchHelpNoLine, SearchHelpOneLine,
     SearchHelpTwoFields, <<>>}

StderrNotFound ==
    <<"E", "r", "r", "o", "r", ":", " ", "f", "i", "l", "e", " ", "n", "o", "t", " ", "f", "o", "u", "n", "d", "\n", " ", " ", "m", "o", "d", "e", "l", "s", "/", "t", "e", "s", "t", ".", "h", "m", "m", "\n">>

ErrPlain ==
    <<"\n", " ", " ", "n", "o", " ", "m", "o", "d", "e", "l", " ", "\n">>

OutTwo ==
    <<"#", " ", "h", "m", "m", "s", "c", "a", "n", "\n", "Q", "u", "e", "r", "y", ":", " ", "a", "\n", "Q", "u", "e", "r", "y", ":", " ", "b", "\n">>

OutDup ==
    <<"Q", "u", "e", "r", "y", ":", " ", "b", "\n", "Q", "u", "e", "r", "y", ":", " ", "a", "\n", "Q", "u", "e", "r", "y", ":", " ", "b", "\n">>

OutErr ==
    <<"w", "a", "r", "n", "\n", "E", "r", "r", "o", "r", ":", " ", "b", "a", "d", "\n">>

TabTwo ==
    <<"#", " ", "t", "\n", "s", "2", " ", "-", "\n", "s", "1", " ", "-", "\n">>

StdoutTexts == {<<>>, OutTwo, OutDup, OutErr}

StderrTexts == {<<>>, StderrNotFound, ErrPlain}

\* what a run of hmmscan may give back
ScanResults ==
    [rc : RetCodes, stdout : StdoutTexts, stderr : StderrTexts, domtab : {<<>>}]

\* what a run of hmmsearch may give back (its report goes to os.devnull, its
\* table to result.domtab)
SearchResults ==
    [rc : RetCodes, stdout : {<<>>}, stderr : {<<>>, ErrPlain}, domtab : {<<>>, TabTwo}]

\* the number of characters of the query quoted in run_hmmscan's error
QueryContextLen == 100

QueryShort ==
    <<">", "s", "e", "q", "1", "\n", "M", "K", "V", "\n">>

\* a query longer than the part of it an error quotes
QueryLong == <<">", "s", "\n">> \o [i \in 1..QueryContextLen |-> "M"]

Queries == {<<>>, QueryShort, QueryLong}

\* the HMM file of the scenario
TargetHmm == "models/test.hmm"

CpuFlag == "--cpu"

\* the opts argument: None, or a list of extra arguments
OptsChoices ==
    { [given |-> FALSE, val |-> <<>>],
      [given |-> TRUE, val |-> <<"--cut_tc">>],
      [given |-> TRUE, val |-> <<"-E", "0.1", "--cut_tc", "-E">>],
      [given |-> TRUE, val |-> <<CpuFlag, "8">>] }

\* None
NoneVal == "None"

\* the results_file argument
ResultsFiles == {NoneVal, "results.txt"}

\* the elapsed time of one timed section, in clock ticks
Durations == {1}

\* how the pyhmmer section may end
ShadowOutcomes == {"ok", "oserror", "nohits", "libexc"}

Callers == {"main"}

----------------------------------------------------------------------------
(* The state of a call *)

NoLoc ==
    [fn |-> "none", query |-> <<>>, has_opts |-> FALSE, opts |-> <<>>,
     results_file |-> NoneVal, target |-> "", use_tempfile |-> FALSE,
     help |-> <<>>, probed |-> FALSE, got_help |-> FALSE,
     command |-> <<>>, ran |-> FALSE,
     rc |-> 0, stdout |-> <<>>, stderr |-> <<>>, domtab |-> <<>>,
     shadow |-> "none", saved_cwd |-> "", acc |-> 0, elapsed |-> 0]

NoOutcome ==
    [kind |-> "none", exc |-> "", origin |-> "", code |-> 0, diag |-> <<>>,
     context |-> <<>>, hits |-> <<>>, text |-> <<>>]

\* return <hits>
ReturnedHits(hits) == [NoOutcome EXCEPT !.kind = "returned", !.hits = hits]

\* return <text>
ReturnedText(text) == [NoOutcome EXCEPT !.kind = "returned", !.text = text]

\* raise <exc>, from the place `origin` of the code
Raised(exc, origin) == [NoOutcome EXCEPT !.kind = "raised", !.exc = exc, !.origin = origin]

TimerNames ==
    {"hmmscan_time", "pyhmmscan_time", "hmmsearch_time_1", "pyhmmsearch_time_1",
     "hmmsearch_time_2", "pyhmmsearch_time_2"}

\* the working directory the process starts in, and the scoped temporary one
HomeDir == "home"

TmpDir == "tmp"

\* <timer> += search_time, first half: the value of the global is loaded next
\* to the elapsed time d of the section that has just ended
LoadTimer(l, name, d) == [l EXCEPT !.acc = timers[name], !.elapsed = d]

\* <timer> += search_time, second half: the sum is stored into the global
Accumulate(name, loaded, d) ==
    /\ timers' = [timers EXCEPT ![name] = loaded + d]
    /\ added' = [added EXCEPT ![name] = @ + d]

\* the accumulator a call adds to at position p
timer_at(p, use_tempfile) ==
    CASE p = "scan_time" -> "hmmscan_time"
      [] p = "scan_pytime" -> "pyhmmscan_time"
      [] p = "search_time" ->
            IF use_tempfile THEN "hmmsearch_time_1" ELSE "hmmsearch_time_2"
      [] p = "search_pytime" ->
            IF use_tempfile THEN "pyhmmsearch_time_1" ELSE "pyhmmsearch_time_2"

\* where a call goes on after it has added to its accumulator at position p
after_time(p) ==
    CASE p = "scan_time" -> "scan_check"
      [] p = "scan_pytime" -> "scan_parse"
      [] p = "search_time" -> "search_shadow"
      [] p = "search_pytime" -> "search_check"

\* the call of `t` ends: pc and outcome
Ends(t, o) ==
    /\ pc' = [pc EXCEPT ![t] = "done"]
    /\ outcome' = [outcome EXCEPT ![t] = o]

\* execute(command, ...) is handed the command
Launch(t, command) == launched' = [launched EXCEPT ![t] = Append(@, command)]

\* open(name, "w") and the writes to it
Write(t, names) == written' = [written EXCEPT ![t] = @ \o names]

----------------------------------------------------------------------------
(* run_hmmscan_help, run_hmmscan_version *)

\* a plausible slip: the sanity check of the banner is lost
banner_ok_unchecked(text) == TRUE

\* help_text.startswith("# hmmscan")
banner_ok(text) == startswith(text, Banner)

\* a plausible slip: the text is stored without its surrounding whitespace
stored_help_stripped(out) == strip(out)

\* setattr(run_hmmscan_help, 'help_text', help_text): the value stored
stored_help(out) == out

\* a plausible slip: the cache is never consulted
cached_never(text) == FALSE

\* `if help_text:` on the cached attribute
cached(text) == text # <<>>

\* a plausible slip: a help text without a version gives the empty version
version_of_lenient(help) ==
    LET lines == split_on(help, "\n")
    IN  IF Len(lines) < 2 THEN ReturnedText(<<>>)
        ELSE IF Len(split_fields(lines[2])) < 3 THEN ReturnedText(<<>>)
        ELSE ReturnedText(split_fields(lines[2])[3])

\* help_text.split('\n')[1].split()[2], or the IndexError of either subscript
version_of(help) ==
    LET lines == split_on(help, "\n")
    IN  IF Len(lines) < 2 THEN Raised("IndexError", "version")
        ELSE IF Len(split_fields(lines[2])) < 3 THEN Raised("IndexError", "version")
        ELSE ReturnedText(split_fields(lines[2])[3])

\* help_text.startswith("# hmmsearch")
search_banner_ok(text) == startswith(text, SearchBanner)

\* run_hmmscan_help returns h to the function that called it; `probed` tells
\* whether h comes from a run of "hmmscan -h" or from the cache
AfterHelp(t, h, probed) ==
    /\ loc' = [loc EXCEPT ![t].help = h, ![t].probed = probed, ![t].got_help = TRUE]
    /\ IF loc[t].fn = "help"
       THEN Ends(t, ReturnedText(h))
       ELSE /\ pc' = [pc EXCEPT ![t] =
                         IF loc[t].fn = "version" THEN "version_parse" ELSE "scan_exec"]
            /\ UNCHANGED outcome

\* a direct call of run_hmmscan_help()
HelpCall(t) ==
    /\ pc[t] = "idle"
    /\ ncalls < MaxCalls
    /\ ncalls' = ncalls + 1
    /\ loc' = [loc EXCEPT ![t] = [NoLoc EXCEPT !.fn = "help"]]
    /\ pc' = [pc EXCEPT ![t] = "help_read"]
    /\ UNCHANGED <<outcome, launched, written, help_text, probes, timers,
                   results_fs, cwd, tmp_live, config, feVars, auxVars>>

\* a call of run_hmmscan_version()
VersionCall(t) ==
    /\ pc[t] = "idle"
    /\ ncalls < MaxCalls
    /\ ncalls' = ncalls + 1
    /\ loc' = [loc EXCEPT ![t] = [NoLoc EXCEPT !.fn = "version"]]
    /\ pc' = [pc EXCEPT ![t] = "help_read"]
    /\ UNCHANGED <<outcome, launched, written, help_text, probes, timers,
                   results_fs, cwd, tmp_live, config, feVars, auxVars>>

\* run_hmmscan_help, the cache lookup
HelpRead(t) ==
    /\ pc[t] = "help_read"
    /\ IF cached(help_text)
       THEN AfterHelp(t, help_text, FALSE)
       ELSE /\ pc' = [pc EXCEPT ![t] = "help_exec"]
            /\ UNCHANGED <<loc, outcome>>
    /\ UNCHANGED <<launched, written, help_text, probes, ncalls, timers,
                   results_fs, cwd, tmp_live, config, feVars, auxVars>>

\* run_hmmscan_help, the probe: execute, the banner check, the setattr
HelpExec(t) ==
    /\ pc[t] = "help_exec"
    /\ Launch(t, <<HmmscanExe, "-h">>)
    /\ \/ \* the process cannot be launched: execute raises
          /\ Ends(t, Raised("OSError", "launch"))
          /\ UNCHANGED <<loc, help_text, probes>>
       \/ \E out \in tool_help :
            /\ probes' = Append(probes, out)
            /\ IF ~banner_ok(out)
               THEN /\ Ends(t, Raised("RuntimeError", "banner"))
                    /\ loc' = [loc EXCEPT ![t].help = out, ![t].probed = TRUE]
                    /\ UNCHANGED help_text
               ELSE /\ help_text' = stored_help(out)
                    /\ AfterHelp(t, out, TRUE)
    /\ UNCHANGED <<written, ncalls, timers, results_fs, cwd, tmp_live, config, feVars, auxVars>>

\* run_hmmscan_version, after run_hmmscan_help returned
VersionParse(t) ==
    /\ pc[t] = "version_parse"
    /\ Ends(t, version_of(loc[t].help))
    /\ UNCHANGED <<loc, launched, written, help_text, probes, ncalls, timers,
                   results_fs, cwd, tmp_live, config, feVars, auxVars>>

----------------------------------------------------------------------------
(* run_hmmscan *)

\* a plausible slip: the check of the query is lost
empty_input_unchecked(query) == FALSE

\* `not query_sequence`
empty_input(query) == query = <<>>

\* a plausible slip: the flag is kept whatever the binary says
supports_cpu_assumed(help) == TRUE

\* " --cpu " in run_hmmscan_help()
supports_cpu(help) == contains(help, CpuToken)

\* a plausible slip: the caller's extra arguments are put behind the target
scan_command_opts_last(cfg, help, has_opts, opts, target) ==
    LET base == <<HmmscanExe, CpuFlag, ToString(cfg.cpus), "--nobias">>
        kept == IF ~supports_cpu(help) THEN Take(base, 1) \o Drop(base, 3) ELSE base
    IN  IF has_opts THEN kept \o <<target>> \o opts \o <<"-">>
                    ELSE kept \o <<target, "-">>

\* the command vector of run_hmmscan
scan_command(cfg, help, has_opts, opts, target) ==
    LET base == <<HmmscanExe, CpuFlag, ToString(cfg.cpus), "--nobias">>
        kept == IF ~supports_cpu(help) THEN Take(base, 1) \o Drop(base, 3) ELSE base
        extended == IF has_opts THEN kept \o opts ELSE kept
    IN  extended \o <<target, "-">>

\* a plausible slip: the results file is never written
wants_results_never(results_file) == FALSE

\* `results_file is not None`
wants_results(results_file) == results_file # NoneVal

\* a plausible slip: only stderr is looked at
error_source_stderr(stderr, stdout) == stderr

\* result.stderr or result.stdout
error_source(stderr, stdout) == str_or(stderr, stdout)

\* a plausible slip: the whole query is quoted
query_context_whole(query) == query

\* query_sequence[:100]
query_context(query) == Take(query, QueryContextLen)

\* the RuntimeError run_hmmscan raises on a nonzero exit code: the fields of
\* its message
ScanError(l) ==
    [Raised("RuntimeError", "exit_code") EXCEPT
        !.code = l.rc,
        !.diag = _find_error(splitlines(error_source(l.stderr, l.stdout))),
        !.context = query_context(l.query)]

\* a call of run_hmmscan: the arguments, and the check of the query
ScanCall(t) ==
    /\ pc[t] = "idle"
    /\ ncalls < MaxCalls
    /\ ncalls' = ncalls + 1
    /\ \E q \in Queries, o \in OptsChoices, rf \in ResultsFiles :
         /\ loc' = [loc EXCEPT ![t] =
                       [NoLoc EXCEPT !.fn = "scan", !.query = q, !.has_opts = o.given,
                                     !.opts = o.val, !.results_file = rf,
                                     !.target = TargetHmm]]
         /\ IF empty_input(q)
            THEN Ends(t, Raised("ValueError", "empty_input"))
            ELSE /\ pc' = [pc EXCEPT ![t] = "help_read"]
                 /\ UNCHANGED outcome
    /\ UNCHANGED <<launched, written, help_text, probes, timers, results_fs,
                   cwd, tmp_live, config, feVars, auxVars>>

\* run_hmmscan: the command is built and run, the elapsed time is taken
ScanExec(t) ==
    /\ pc[t] = "scan_exec"
    /\ LET l == loc[t]
           command == scan_command(config, l.help, l.has_opts, l.opts, l.target)
       IN  /\ Launch(t, command)
           /\ \/ \* the process cannot be launched: execute raises
                 /\ Ends(t, Raised("OSError", "launch"))
                 /\ loc' = [loc EXCEPT ![t].command = command]
                 /\ UNCHANGED timers
              \/ \E r \in ScanResults, d \in Durations :
                   /\ loc' = [loc EXCEPT ![t] =
                                 LoadTimer([l EXCEPT !.command = command, !.ran = TRUE,
                                                     !.rc = r.rc, !.stdout = r.stdout,
                                                     !.stderr = r.stderr,
                                                     !.domtab = r.domtab],
                                           timer_at("scan_time", l.use_tempfile), d)]
                   /\ pc' = [pc EXCEPT ![t] = "scan_time"]
                   /\ UNCHANGED <<outcome, timers>>
    /\ UNCHANGED <<written, help_text, probes, ncalls, results_fs, cwd, tmp_live,
                   config, feVars, auxVars>>

\* run_hmmscan: the exit code is checked, the results file is written
ScanCheck(t) ==
    /\ pc[t] = "scan_check"
    /\ LET l == loc[t]
       IN  IF ~successful(l.rc)
           THEN /\ Ends(t, ScanError(l))
                /\ UNCHANGED <<written, results_fs>>
           ELSE /\ pc' = [pc EXCEPT ![t] = "scan_shadow"]
                /\ UNCHANGED outcome
                /\ IF wants_results(l.results_file)
                   THEN /\ Write(t, <<l.results_file>>)
                        /\ results_fs' = [exists |-> TRUE, data |-> l.stdout]
                   ELSE UNCHANGED <<written, results_fs>>
    /\ UNCHANGED <<loc, launched, help_text, probes, ncalls, timers, cwd, tmp_live,
                   config, feVars, auxVars>>

\* run_hmmscan: the pyhmmer section, in no try block
ScanShadow(t) ==
    /\ pc[t] = "scan_shadow"
    /\ \E s \in ShadowOutcomes :
         CASE s = "ok" ->
                \E d \in Durations :
                  /\ Write(t, <<"hmmscan_query.fa", "pyhmmscan_output.txt">>)
                  /\ loc' = [loc EXCEPT ![t] =
                                LoadTimer([loc[t] EXCEPT !.shadow = s],
                                          timer_at("scan_pytime", loc[t].use_tempfile), d)]
                  /\ pc' = [pc EXCEPT ![t] = "scan_pytime"]
                  /\ UNCHANGED outcome
           [] s = "oserror" ->
                \* open("hmmscan_query.fa", "w") fails
                /\ loc' = [loc EXCEPT ![t].shadow = s]
                /\ Ends(t, Raised("OSError", "shadow"))
                /\ UNCHANGED written
           [] s = "libexc" ->
                \* easel.SequenceFile, plan7.HMMFile or hmmer.hmmscan raises
                /\ loc' = [loc EXCEPT ![t].shadow = s]
                /\ Write(t, <<"hmmscan_query.fa">>)
                /\ Ends(t, Raised("LibraryError", "shadow"))
           [] s = "nohits" ->
                \* hits_list is empty: hits_list[0] raises
                /\ loc' = [loc EXCEPT ![t].shadow = s]
                /\ Write(t, <<"hmmscan_query.fa", "pyhmmscan_output.txt">>)
                /\ Ends(t, Raised("IndexError", "shadow"))
    /\ UNCHANGED <<launched, help_text, probes, ncalls, timers, results_fs, cwd,
                   tmp_live, config, feVars, auxVars>>

\* run_hmmscan: the captured stdout is parsed and returned
ScanParse(t) ==
    /\ pc[t] = "scan_parse"
    /\ Ends(t, ReturnedHits(parse_hmmer3_text(loc[t].stdout)))
    /\ UNCHANGED <<loc, launched, written, help_text, probes, ncalls, timers,
                   results_fs, cwd, tmp_live, config, feVars, auxVars>>

----------------------------------------------------------------------------
(* run_hmmsearch *)

\* a plausible slip: the OSError is not caught
on_oserror_raise == Raised("OSError", "search")

\* except OSError: return []
on_oserror == ReturnedHits(<<>>)

\* the command vector of run_hmmsearch, before the input is appended
search_command(cfg, query_hmmfile) ==
    LET base == <<HmmsearchExe, CpuFlag, ToString(cfg.cpus), "-o", DevNull,
                  "--domtblout", "result.domtab", query_hmmfile>>
    IN  IF ~cfg.multithreading THEN Take(base, 1) \o Drop(base, 3) ELSE base

\* a plausible slip: the temporary directory is removed, the working directory
\* is not changed back
LeaveTmp_no_chdir(t) ==
    /\ cwd' = cwd
    /\ tmp_live' = FALSE

\* TemporaryDirectory(change=True).__exit__: back to the directory that was
\* current at entry, and the temporary directory is removed
LeaveTmp(t) ==
    /\ cwd' = loc[t].saved_cwd
    /\ tmp_live' = FALSE

\* a call of run_hmmsearch: the arguments, the command, and the entry into the
\* temporary directory
SearchCall(t) ==
    /\ pc[t] = "idle"
    /\ ncalls < MaxCalls
    /\ ncalls' = ncalls + 1
    /\ \E q \in Queries, tf \in BOOLEAN :
         /\ loc' = [loc EXCEPT ![t] =
                       [NoLoc EXCEPT !.fn = "search", !.query = q, !.use_tempfile = tf,
                                     !.target = TargetHmm,
                                     !.command = search_command(config, TargetHmm),
                                     !.saved_cwd = cwd]]
         /\ pc' = [pc EXCEPT ![t] = IF tf THEN "search_input" ELSE "search_exec"]
    /\ cwd' = TmpDir
    /\ tmp_live' = TRUE
    /\ UNCHANGED <<outcome, launched, written, help_text, probes, timers,
                   results_fs, config, feVars, auxVars>>

\* run_hmmsearch, tempfile mode: input.fa is written
SearchInput(t) ==
    /\ pc[t] = "search_input"
    /\ \/ \* open("input.fa", "w") fails: except OSError: return []
          /\ Ends(t, on_oserror)
          /\ LeaveTmp(t)
          /\ UNCHANGED <<loc, written>>
       \/ /\ Write(t, <<"input.fa">>)
          /\ loc' = [loc EXCEPT ![t].command = Append(@, "input.fa")]
          /\ pc' = [pc EXCEPT ![t] = "search_exec"]
          /\ UNCHANGED <<outcome, cwd, tmp_live>>
    /\ UNCHANGED <<launched, help_text, probes, ncalls, timers, results_fs,
                   config, feVars, auxVars>>

\* run_hmmsearch: the command is run, the elapsed time is taken
SearchExec(t) ==
    /\ pc[t] = "search_exec"
    /\ LET l == loc[t]
           command == IF l.use_tempfile THEN l.command ELSE Append(l.command, "-")
       IN  /\ Launch(t, command)
           /\ \/ \* the process cannot be launched: except OSError: return []
                 /\ Ends(t, on_oserror)
                 /\ LeaveTmp(t)
                 /\ loc' = [loc EXCEPT ![t].command = command]
                 /\ UNCHANGED timers
              \/ \E r \in SearchResults, d \in Durations :
                   /\ loc' = [loc EXCEPT ![t] =
                                 LoadTimer([l EXCEPT !.command = command, !.ran = TRUE,
                                                     !.rc = r.rc, !.stdout = r.stdout,
                                                     !.stderr = r.stderr,
                                                     !.domtab = r.domtab],
                                           timer_at("search_time", l.use_tempfile), d)]
                   /\ pc' = [pc EXCEPT ![t] = "search_time"]
                   /\ UNCHANGED <<outcome, cwd, tmp_live, timers>>
    /\ UNCHANGED <<written, help_text, probes, ncalls, results_fs, config, feVars,
                   auxVars>>

\* the files the pyhmmer section of run_hmmsearch writes, up to its output file
\* or up to its own copy of the input only
shadow_files(use_tempfile, with_output) ==
    (IF use_tempfile THEN <<>> ELSE <<"input_stdin_pyhmmer.fa">>)
    \o (IF ~with_output THEN <<>>
        ELSE IF use_tempfile THEN <<"result_pyhmmer.domtab">>
        ELSE <<"result_stdin_pyhmmer.domtab">>)

\* run_hmmsearch: the pyhmmer section, inside the try block, before the exit
\* code is looked at
SearchShadow(t) ==
    /\ pc[t] = "search_shadow"
    /\ \E s \in ShadowOutcomes :
         CASE s = "ok" ->
                \E d \in Durations :
                  /\ Write(t, shadow_files(loc[t].use_tempfile, TRUE))
                  /\ loc' = [loc EXCEPT ![t] =
                                LoadTimer([loc[t] EXCEPT !.shadow = s],
                                          timer_at("search_pytime", loc[t].use_tempfile),
                                          d)]
                  /\ pc' = [pc EXCEPT ![t] = "search_pytime"]
                  /\ UNCHANGED <<outcome, cwd, tmp_live>>
           [] s = "oserror" ->
                \* a file of the section cannot be opened: except OSError: return []
                /\ loc' = [loc EXCEPT ![t].shadow = s]
                /\ Ends(t, on_oserror)
                /\ LeaveTmp(t)
                /\ UNCHANGED written
           [] s = "libexc" ->
                \* plan7.HMMFile, easel.SequenceFile or hmmer.hmmsearch raises
                /\ loc' = [loc EXCEPT ![t].shadow = s]
                /\ Write(t, shadow_files(loc[t].use_tempfile, FALSE))
                /\ Ends(t, Raised("LibraryError", "shadow"))
                /\ LeaveTmp(t)
           [] s = "nohits" ->
                \* hits_list is empty: hits_list[0] raises
                /\ loc' = [loc EXCEPT ![t].shadow = s]
                /\ Write(t, shadow_files(loc[t].use_tempfile, TRUE))
                /\ Ends(t, Raised("IndexError", "shadow"))
                /\ LeaveTmp(t)
    /\ UNCHANGED <<launched, help_text, probes, ncalls, timers, results_fs, config,
                   feVars, auxVars>>

\* run_hmmsearch: after the try block, the exit code is checked and
\* result.domtab is parsed
SearchCheck(t) ==
    /\ pc[t] = "search_check"
    /\ IF ~successful(loc[t].rc)
       THEN Ends(t, [Raised("RuntimeError", "exit_code") EXCEPT !.code = loc[t].rc])
       ELSE Ends(t, ReturnedHits(parse_domtab(loc[t].domtab)))
    /\ LeaveTmp(t)
    /\ UNCHANGED <<loc, launched, written, help_text, probes, ncalls, timers,
                   results_fs, config, feVars, auxVars>>

----------------------------------------------------------------------------
(* run_hmmsearch_version *)

\* a call of run_hmmsearch_version(): "hmmsearch -h" is run, its banner is
\* checked and the version is taken from its second line
SearchVersionCall(t) ==
    /\ pc[t] = "idle"
    /\ ncalls < MaxCalls
    /\ ncalls' = ncalls + 1
    /\ Launch(t, <<HmmsearchExe, "-h">>)
    /\ \/ \* the process cannot be launched: execute raises
          /\ loc' = [loc EXCEPT ![t] = [NoLoc EXCEPT !.fn = "search_version"]]
          /\ Ends(t, Raised("OSError", "launch"))
          /\ UNCHANGED search_probes
       \/ \E out \in SearchHelpTexts :
            /\ search_probes' = search_probes + 1
            /\ loc' = [loc EXCEPT ![t] =
                          [NoLoc EXCEPT !.fn = "search_version", !.help = out]]
            /\ IF ~search_banner_ok(out)
               THEN Ends(t, Raised("RuntimeError", "banner"))
               ELSE Ends(t, version_of(out))
    /\ UNCHANGED <<written, help_text, probes, timers, results_fs, cwd, tmp_live,
                   config, feVars, tool_help, added>>

----------------------------------------------------------------------------
(* The accumulators *)

\* `<timer> += search_time`, the store: run_hmmscan after either of its timed
\* sections, run_hmmsearch after either of its
AddTime(t) ==
    /\ pc[t] \in {"scan_time", "scan_pytime", "search_time", "search_pytime"}
    /\ Accumulate(timer_at(pc[t], loc[t].use_tempfile), loc[t].acc, loc[t].elapsed)
    /\ pc' = [pc EXCEPT ![t] = after_time(pc[t])]
    /\ UNCHANGED <<loc, outcome, launched, written, help_text, probes, ncalls,
                   results_fs, cwd, tmp_live, config, feVars, tool_help, search_probes>>

----------------------------------------------------------------------------
(* The caller *)

\* the caller has the outcome of its call and goes on
Finish(t) ==
    /\ pc[t] = "done"
    /\ pc' = [pc EXCEPT ![t] = "idle"]
    /\ loc' = [loc EXCEPT ![t] = NoLoc]
    /\ outcome' = [outcome EXCEPT ![t] = NoOutcome]
    /\ launched' = [launched EXCEPT ![t] = <<>>]
    /\ written' = [written EXCEPT ![t] = <<>>]
    /\ UNCHANGED <<help_text, probes, ncalls, timers, results_fs, cwd, tmp_live,
                   config, feVars, auxVars>>

\* the state of a process that has imported the two modules
Imported(callers) ==
    /\ pc = [t \in callers |-> "idle"]
    /\ loc = [t \in callers |-> NoLoc]
    /\ outcome = [t \in callers |-> NoOutcome]
    /\ launched = [t \in callers |-> <<>>]
    /\ written = [t \in callers |-> <<>>]
    /\ help_text = <<>>
    /\ probes = <<>>
    /\ ncalls = 0
    /\ timers = [n \in TimerNames |-> 0]
    /\ results_fs = [exists |-> FALSE, data |-> <<>>]
    /\ cwd = HomeDir
    /\ tmp_live = FALSE
    /\ config \in Configs
    /\ search_probes = 0
    /\ added = [n \in TimerNames |-> 0]
    /\ fe_input = <<>>
    /\ fe_output = <<>>
    /\ fe_done = FALSE

\* one caller; a run of "hmmscan -h" may print any of the help texts
Init ==
    /\ Imported(Callers)
    /\ tool_help = HelpTexts

Next ==
    \E t \in Callers :
        \/ HelpCall(t)
        \/ VersionCall(t)
        \/ HelpRead(t)
        \/ HelpExec(t)
        \/ VersionParse(t)
        \/ ScanCall(t)
        \/ ScanExec(t)
        \/ ScanCheck(t)
        \/ ScanShadow(t)
        \/ ScanParse(t)
        \/ SearchCall(t)
        \/ SearchInput(t)
        \/ SearchExec(t)
        \/ SearchShadow(t)
        \/ SearchCheck(t)
        \/ SearchVersionCall(t)
        \/ AddTime(t)
        \/ Finish(t)

Spec == Init /\ [][Next]_vars

----------------------------------------------------------------------------
(* _find_error as a pure function: every list of up to MaxLines lines *)

LineErrA ==
    <<"E", "r", "r", "o", "r", ":", " ", "a", " ">>

LineErrLead ==
    <<" ", "E", "r", "r", "o", "r", ":", " ", "b">>

LineErrBare ==
    <<"E", "r", "r", "o", "r", ":">>

LinePadded ==
    <<" ", " ", "m", " ">>

LineBlank ==
    <<" ", "\t">>

LinePlain ==
    <<"x", "\n">>

\* the lines a list is made of
Lines == {<<>>, LineBlank, LinePlain, LinePadded, LineErrA, LineErrLead, LineErrBare}

LineLists == UNION {[1..n -> Lines] : n \in 0..MaxLines}

InitFindError ==
    /\ pc = [t \in Callers |-> "idle"]
    /\ loc = [t \in Callers |-> NoLoc]
    /\ outcome = [t \in Callers |-> NoOutcome]
    /\ launched = [t \in Callers |-> <<>>]
    /\ written = [t \in Callers |-> <<>>]
    /\ help_text = <<>>
    /\ probes = <<>>
    /\ ncalls = 0
    /\ timers = [n \in TimerNames |-> 0]
    /\ results_fs = [exists |-> FALSE, data |-> <<>>]
    /\ cwd = HomeDir
    /\ tmp_live = FALSE
    /\ config = [cpus |-> 1, multithreading |-> TRUE]
    /\ tool_help = HelpTexts
    /\ search_probes = 0
    /\ added = [n \in TimerNames |-> 0]
    /\ fe_input \in LineLists
    /\ fe_output = <<>>
    /\ fe_done = FALSE

\* _find_error(fe_input)
FindErrorCall ==
    /\ ~fe_done
    /\ fe_output' = _find_error(fe_input)
    /\ fe_done' = TRUE
    /\ UNCHANGED <<fe_input, callVars>>

NextFindError == FindErrorCall

SpecFindError == InitFindError /\ [][NextFindError]_vars

----------------------------------------------------------------------------
(* The version functions, with binaries whose help text may lack a version *)

\* one caller; "hmmscan -h" may also print a text with the banner and without
\* a second line or a third field on it
InitVersion ==
    /\ Imported(Callers)
    /\ tool_help = HelpTexts \cup MalformedHelpTexts

NextVersion ==
    \E t \in Callers :
        \/ VersionCall(t)
        \/ HelpRead(t)
        \/ HelpExec(t)
        \/ VersionParse(t)
        \/ SearchVersionCall(t)
        \/ Finish(t)

SpecVersion == InitVersion /\ [][NextVersion]_vars

----------------------------------------------------------------------------
(* Concurrent callers: threads of one process that call into the module.     *)
(* Each step of a call (an action above) is atomic; between the steps of one *)
(* caller the other may take any number of its own.                          *)

Threads == {"main", "worker"}

\* two callers of run_hmmscan_help and run_hmmscan_version.  The installed
\* hmmscan is one binary: whatever its "-h" prints, it prints the same on
\* every run of the process's lifetime
InitHelpRace ==
    /\ Imported(Threads)
    /\ tool_help \in {{h} : h \in HelpTexts}

NextHelpRace ==
    \E t \in Threads :
        \/ HelpCall(t)
        \/ VersionCall(t)
        \/ HelpRead(t)
        \/ HelpExec(t)
        \/ VersionParse(t)
        \/ Finish(t)

SpecHelpRace == InitHelpRace /\ [][NextHelpRace]_vars

\* two callers of run_hmmsearch, each with the short query; hmmsearch writes
\* nothing to stderr
InitTimers ==
    /\ Imported(Threads)
    /\ tool_help = HelpTexts

NextTimers ==
    \E t \in Threads :
        \/ SearchCall(t) /\ loc'[t].query = QueryShort
        \/ SearchInput(t)
        \/ SearchExec(t) /\ loc'[t].stderr = <<>>
        \/ SearchShadow(t)
        \/ SearchCheck(t)
        \/ AddTime(t)
        \/ Finish(t)

SpecTimers == InitTimers /\ [][NextTimers]_vars

----------------------------------------------------------------------------
(* The claims about run_hmmscan and run_hmmsearch *)

\* the pyhmmer section of the call of t has failed
ShadowFailed(t) == loc[t].shadow \in {"oserror", "nohits", "libexc"}

\* what the subprocess path alone gives for a call whose process has run
SubprocessOutcome(l) ==
    IF l.fn = "scan"
    THEN IF l.rc = 0
         THEN ReturnedHits(parse_hmmer3_text(l.stdout))
         ELSE [Raised("RuntimeError", "exit_code") EXCEPT
                  !.code = l.rc,
                  !.diag = _find_error(splitlines(IF l.stderr # <<>> THEN l.stderr
                                                                    ELSE l.stdout)),
                  !.context = Take(l.query, QueryContextLen)]
    ELSE IF l.rc = 0
         THEN ReturnedHits(parse_domtab(l.domtab))
         ELSE [Raised("RuntimeError", "exit_code") EXCEPT !.code = l.rc]

\* C1: a failure of the pyhmmer section of run_hmmscan or run_hmmsearch never
\* reaches the caller: the call ends as the subprocess path alone decides
C1_ShadowFailureInvisible ==
    \A t \in Callers :
        (pc[t] = "done" /\ loc[t].fn \in {"scan", "search"} /\ ShadowFailed(t))
            => outcome[t] = SubprocessOutcome(loc[t])

\* C2: a call of run_hmmscan with an empty query ends at once with the
\* empty-input error, having handed no command to the process runner and
\* written no file
C2_EmptyScanRejected ==
    \A t \in Callers :
        (loc[t].fn = "scan" /\ loc[t].query = <<>>)
            => /\ pc[t] = "done"
               /\ outcome[t] = Raised("ValueError", "empty_input")
               /\ launched[t] = <<>>
               /\ written[t] = <<>>

\* an empty query is rejected although the cache is unset (a probe would have
\* been due), extra arguments and a results path are given
C2_Witness ==
    \E t \in Callers :
        /\ loc[t].fn = "scan" /\ loc[t].query = <<>> /\ pc[t] = "done"
        /\ help_text = <<>>
        /\ loc[t].has_opts /\ loc[t].results_file # NoneVal

\* C3: in a call of run_hmmsearch with an empty query text no process is run
C3_EmptySearchRejected ==
    \A t \in Callers :
        (loc[t].fn = "search" /\ loc[t].query = <<>>) => ~loc[t].ran

\* C4: when hmmscan has exited with code zero, run_hmmscan returns the parse of
\* the captured stdout
C4_ZeroExitReturnsParse ==
    \A t \in Callers :
        (pc[t] = "done" /\ loc[t].fn = "scan" /\ loc[t].ran /\ loc[t].rc = 0)
            => outcome[t] = ReturnedHits(parse_hmmer3_text(loc[t].stdout))

\* C5: when hmmscan has exited with a nonzero code, run_hmmscan goes no
\* further than the check of the exit code and raises an error with the exit
\* code, the diagnostic _find_error gives for the lines of stderr (of stdout
\* when stderr is empty), and the first 100 characters of the query
C5_NonzeroExitError ==
    \A t \in Callers :
        (loc[t].fn = "scan" /\ loc[t].ran /\ loc[t].rc # 0)
            => /\ pc[t] \in {"scan_time", "scan_check", "done"}
               /\ pc[t] = "done" =>
                    /\ outcome[t].kind = "raised"
                    /\ outcome[t].exc = "RuntimeError"
                    /\ outcome[t].code = loc[t].rc
                    /\ outcome[t].diag =
                         _find_error(splitlines(IF loc[t].stderr # <<>>
                                                THEN loc[t].stderr ELSE loc[t].stdout))
                    /\ Len(outcome[t].context) <= QueryContextLen
                    /\ Len(outcome[t].context) <= Len(loc[t].query)
                    /\ \A i \in 1..Len(outcome[t].context) :
                         outcome[t].context[i] = loc[t].query[i]
                    /\ Len(outcome[t].context) = QueryContextLen
                         \/ outcome[t].context = loc[t].query

\* the error of a nonzero exit with an empty stderr, an "Error:" line on stdout
\* and a query of more than 100 characters
C5_Witness ==
    \E t \in Callers :
        /\ loc[t].fn = "scan" /\ pc[t] = "done" /\ loc[t].ran /\ loc[t].rc = 2
        /\ loc[t].stderr = <<>> /\ loc[t].stdout = OutErr
        /\ loc[t].query = QueryLong
        /\ outcome[t].kind = "raised"

----------------------------------------------------------------------------
(* The claims about _find_error *)

\* the least element of a non-empty set of integers
Least(S) == CHOOSE i \in S : \A j \in S : i <= j

\* the greatest element of a non-empty set of integers
Greatest(S) == CHOOSE i \in S : \A j \in S : j <= i

\* s without its leading and trailing whitespace, said by positions
TrimmedOf(s) ==
    LET solid == {i \in 1..Len(s) : s[i] \notin Whitespace}
    IN  IF solid = {} THEN <<>> ELSE SubSeq(s, Least(solid), Greatest(solid))

\* C6: _find_error gives a result for every list of lines, chosen by case: the
\* first line that starts with "Error:" together with the line after it when
\* there is one (both trimmed, one space between them), whatever comes before
\* it; without such a line the first line that is not blank, trimmed; without
\* that either, "unknown error"
C6_FindErrorCases ==
    /\ ~fe_done => ENABLED FindErrorCall
    /\ fe_done =>
         LET n == Len(fe_input)
             errors == {i \in 1..n : /\ Len(fe_input[i]) >= Len(ErrorToken)
                                     /\ \A k \in 1..Len(ErrorToken) :
                                          fe_input[i][k] = ErrorToken[k]}
             filled == {i \in 1..n : TrimmedOf(fe_input[i]) # <<>>}
         IN  IF errors # {}
             THEN LET i == Least(errors)
                  IN  fe_output =
                        IF i < n
                        THEN TrimmedOf(fe_input[i]) \o <<" ">> \o TrimmedOf(fe_input[i + 1])
                        ELSE TrimmedOf(fe_input[i])
             ELSE IF filled # {}
             THEN fe_output = TrimmedOf(fe_input[Least(filled)])
             ELSE fe_output = UnknownError

\* an "Error:" line after a line that is not blank, with a line after it
C6_Witness ==
    /\ fe_done
    /\ fe_input = <<LinePadded, LineErrA, LinePlain>>
    /\ fe_output = <<"E", "r", "r", "o", "r", ":", " ", "a", " ", "x">>

DiagThreeSpaces ==
    <<"E", "r", "r", "o", "r", ":", " ", "f", "i", "l", "e", " ", "n", "o", "t", " ", "f", "o", "u", "n", "d", " ", " ", " ", "m", "o", "d", "e", "l", "s", "/", "t", "e", "s", "t", ".", "h", "m", "m">>

DiagOneSpace ==
    <<"E", "r", "r", "o", "r", ":", " ", "f", "i", "l", "e", " ", "n", "o", "t", " ", "f", "o", "u", "n", "d", " ", "m", "o", "d", "e", "l", "s", "/", "t", "e", "s", "t", ".", "h", "m", "m">>

\* the scenario: run_hmmscan on models/test.hmm, hmmscan exits 1 with
\* "Error: file not found\n  models/test.hmm\n" on stderr, the call has ended
FileNotFoundScenario(t) ==
    /\ loc[t].fn = "scan" /\ pc[t] = "done"
    /\ loc[t].target = TargetHmm
    /\ loc[t].ran /\ loc[t].rc = 1 /\ loc[t].stderr = StderrNotFound

\* C7 as stated: in the scenario the diagnostic of the error is
\* "Error: file not found   models/test.hmm", three spaces before "models"
C7_DiagnosticThreeSpaces ==
    \A t \in Callers :
        FileNotFoundScenario(t)
            => outcome[t].kind = "raised" /\ outcome[t].diag = DiagThreeSpaces

\* C7 as amended: in the scenario the diagnostic of the error is
\* "Error: file not found models/test.hmm": both lines trimmed, one space
\* between them
C7_DiagnosticOneSpace ==
    \A t \in Callers :
        FileNotFoundScenario(t)
            => outcome[t].kind = "raised" /\ outcome[t].diag = DiagOneSpace

\* the scenario has happened, for the query of the scenario
C7_Witness ==
    \E t \in Callers :
        /\ FileNotFoundScenario(t)
        /\ loc[t].query = QueryShort
        /\ outcome[t].exc = "RuntimeError"

----------------------------------------------------------------------------
(* The claims about the capability probe *)

\* the text begins with the banner of hmmscan's help
HasBanner(text) ==
    /\ Len(text) >= Len(Banner)
    /\ \A k \in 1..Len(Banner) : text[k] = Banner[k]

\* the runs of "hmmscan -h" so far whose output has the banner
PassedProbes == {i \in 1..Len(probes) : HasBanner(probes[i])}

\* C8 as stated: however many calls are made, "hmmscan -h" is run at most once
C8_AtMostOneProbe == Len(probes) <= 1

\* C8 as amended: at most one run of "hmmscan -h" gives a text with the banner,
\* none is made after it, its output is the cached text, and every call of
\* run_hmmscan_help that has returned gave that text; runs whose output lacks
\* the banner cache nothing (so each call that meets one probes again)
C8_ProbeOncePassed ==
    /\ \A i \in PassedProbes : i = Len(probes) /\ help_text = probes[i]
    /\ PassedProbes = {} => help_text = <<>>
    /\ \A t \in Callers :
         loc[t].got_help => help_text # <<>> /\ loc[t].help = help_text

\* a second call returns the cached text without running anything
C8_Witness ==
    \E t \in Callers :
        /\ ncalls = 2 /\ Len(probes) = 1
        /\ loc[t].fn = "help" /\ pc[t] = "done"
        /\ outcome[t] = ReturnedText(help_text)
        /\ launched[t] = <<>>

\* C9: a help text without the banner is never stored; the call that got it
\* raises the RuntimeError of the banner check and leaves the cache unset, and
\* a call returns a text without probing only when the cache holds a text with
\* the banner
C9_BadBannerNotCached ==
    /\ help_text # <<>> => HasBanner(help_text)
    /\ \A t \in Callers :
         /\ (loc[t].probed /\ ~HasBanner(loc[t].help))
               => /\ pc[t] = "done"
                  /\ outcome[t] = Raised("RuntimeError", "banner")
                  /\ ~loc[t].got_help
                  /\ help_text = <<>>
         /\ (loc[t].got_help /\ ~loc[t].probed) => HasBanner(loc[t].help)

\* after a probe without the banner, a later call has probed again and got a
\* text without the banner again
C9_Witness ==
    \E t \in Callers :
        /\ Len(probes) = 2 /\ probes[1] = HelpBad
        /\ loc[t].probed /\ loc[t].help = HelpBad /\ pc[t] = "done"
        /\ help_text = <<>>

\* how often x occurs in the sequence s
Occurrences(s, x) == Cardinality({i \in 1..Len(s) : s[i] = x})

\* run_hmmscan has built its command from a help text without " --cpu "
BuiltWithoutCpuSupport(t) ==
    /\ loc[t].fn = "scan"
    /\ loc[t].command # <<>>
    /\ \A i \in 1..Len(loc[t].help) :
         i + Len(CpuToken) - 1 <= Len(loc[t].help)
            => SubSeq(loc[t].help, i, i + Len(CpuToken) - 1) # CpuToken

\* C10 as stated: built from a help text without " --cpu ", the command that
\* run_hmmscan hands to the process runner holds no "--cpu"
C10_NoCpuFlag ==
    \A t \in Callers :
        BuiltWithoutCpuSupport(t)
            => /\ Occurrences(loc[t].command, CpuFlag) = 0
               /\ launched[t][Len(launched[t])] = loc[t].command

\* C10 as amended: built from a help text without " --cpu ", the command that
\* run_hmmscan hands to the process runner holds "--cpu" only as often as the
\* caller's own extra arguments do, and never as its second element
C10_NoCpuFlagAdded ==
    \A t \in Callers :
        BuiltWithoutCpuSupport(t)
            => /\ Occurrences(loc[t].command, CpuFlag) = Occurrences(loc[t].opts, CpuFlag)
               /\ loc[t].command[2] = "--nobias"
               /\ launched[t][Len(launched[t])] = loc[t].command

\* a command built for four workers from a help text without " --cpu "
C10_Witness ==
    \E t \in Callers :
        /\ BuiltWithoutCpuSupport(t)
        /\ config.cpus = 4
        /\ loc[t].help = HelpNoCpu
        /\ Len(loc[t].opts) = 4
        /\ Occurrences(loc[t].command, CpuFlag) = 0

----------------------------------------------------------------------------
(* C11: the command vector of run_hmmscan *)

\* the text holds " --cpu " somewhere
MentionsCpu(text) ==
    \E i \in 1..Len(text) :
        /\ i + Len(CpuToken) - 1 <= Len(text)
        /\ SubSeq(text, i, i + Len(CpuToken) - 1) = CpuToken

\* the command vector the claim describes for the call of caller t
DescribedCommand(t) ==
    <<HmmscanExe>>
        \o (IF MentionsCpu(loc[t].help) THEN <<"--cpu", ToString(config.cpus)>> ELSE <<>>)
        \o <<"--nobias">>
        \o (IF loc[t].has_opts THEN loc[t].opts ELSE <<>>)
        \o <<loc[t].target, "-">>

\* C11: the command run_hmmscan builds and hands to the process runner is the
\* executable, "--cpu" and the worker count when the binary knows the flag,
\* "--nobias", the caller's extra arguments as given, the target and "-"; and
\* no step of a call changes the caller's list of extra arguments
C11_CommandOrder ==
    /\ [](\A t \in Callers :
            (loc[t].fn = "scan" /\ loc[t].command # <<>>)
                => /\ loc[t].command = DescribedCommand(t)
                   /\ launched[t][Len(launched[t])] = loc[t].command
                   /\ loc[t].command[Len(loc[t].command)] = "-")
    /\ [][\A t \in Callers :
            (loc[t].fn = "scan" /\ loc'[t].fn = "scan")
                => /\ loc'[t].opts = loc[t].opts
                   /\ loc'[t].has_opts = loc[t].has_opts]_vars

\* a command with the thread-count flag kept and four extra arguments, two of
\* them equal
C11_Witness ==
    \E t \in Callers :
        loc[t].command = <<HmmscanExe, "--cpu", "4", "--nobias",
                           "-E", "0.1", "--cut_tc", "-E", TargetHmm, "-">>

----------------------------------------------------------------------------
(* C12, C13: the course of a search call *)

\* the search commands (not the probe "-h") among the commands of the call of t
SearchLaunches(t) ==
    {i \in 1..Len(launched[t]) : launched[t][i][Len(launched[t][i])] # "-h"}

\* the call of t has ended in Parsed: it returned the parse of what the
\* subprocess wrote
EndedParsed(t) ==
    /\ outcome[t].kind = "returned"
    /\ outcome[t].hits = (IF loc[t].fn = "scan" THEN parse_hmmer3_text(loc[t].stdout)
                                                ELSE parse_domtab(loc[t].domtab))

\* the call of t has ended in Failed: it raised the error of the exit code
EndedFailed(t) ==
    /\ outcome[t].kind = "raised"
    /\ outcome[t].exc = "RuntimeError"
    /\ outcome[t].origin = "exit_code"
    /\ outcome[t].code = loc[t].rc

\* C12: a call of run_hmmscan or run_hmmsearch launches its search process at
\* most once, and once the process has run the call ends in Parsed when the
\* exit code is zero and in Failed when it is not, and in nothing else
C12_CallStateMachine ==
    \A t \in Callers :
        loc[t].fn \in {"scan", "search"}
            => /\ Cardinality(SearchLaunches(t)) <= 1
               /\ (pc[t] = "done" /\ loc[t].ran)
                     => \/ loc[t].rc = 0 /\ EndedParsed(t)
                        \/ loc[t].rc # 0 /\ EndedFailed(t)

\* C13: the pyhmmer section of run_hmmscan or run_hmmsearch runs only in a call
\* whose subprocess has run and exited with code zero
C13_ShadowAfterSuccess ==
    \A t \in Callers :
        (loc[t].fn \in {"scan", "search"} /\ loc[t].shadow # "none")
            => loc[t].ran /\ loc[t].rc = 0

----------------------------------------------------------------------------
(* C14: the scoped temporary directory of run_hmmsearch *)

\* no call of run_hmmsearch is under way
NoSearchRunning ==
    \A t \in Callers : loc[t].fn = "search" => pc[t] = "done"

\* C14: a call of run_hmmsearch writes files only while the process is inside
\* the live temporary directory, and whenever no such call is under way,
\* however the calls before have ended, the temporary directory is gone and
\* the working directory is the one the process started in
C14_TmpScoped ==
    /\ [](NoSearchRunning => (cwd = HomeDir /\ ~tmp_live))
    /\ [](\A t \in Callers :
            (loc[t].fn = "search" /\ pc[t] # "done")
                => (cwd = TmpDir /\ tmp_live /\ loc[t].saved_cwd = HomeDir))
    /\ [][\A t \in Callers :
            (loc'[t].fn = "search" /\ written'[t] # written[t])
                => (cwd = TmpDir /\ tmp_live)]_vars

\* the second call of run_hmmsearch has ended by raising the error of a nonzero
\* exit code, after it wrote its files, and the process is back where it
\* started
C14_Witness ==
    \E t \in Callers :
        /\ loc[t].fn = "search" /\ pc[t] = "done"
        /\ ncalls = 2
        /\ timers["hmmsearch_time_1"] + timers["hmmsearch_time_2"] = 2
        /\ outcome[t].kind = "raised" /\ outcome[t].origin = "exit_code"
        /\ Len(written[t]) >= 2
        /\ cwd = HomeDir /\ ~tmp_live

----------------------------------------------------------------------------
(* C15: concurrent first-time callers of run_hmmscan_help *)

\* C15: with two callers of run_hmmscan_help interleaved in any way, the cache
\* is unset or holds a whole output of "hmmscan -h" with the banner; once set
\* it never changes to another value; and every caller that has been given the
\* help text has been given the cached one, so that all of them have the same
C15_SingleWinner ==
    /\ [](help_text = <<>> \/ (help_text \in tool_help /\ HasBanner(help_text)))
    /\ [](\A t \in DOMAIN pc :
            loc[t].got_help => (help_text # <<>> /\ loc[t].help = help_text))
    /\ [](\A t \in DOMAIN pc, u \in DOMAIN pc :
            (loc[t].got_help /\ loc[u].got_help) => loc[t].help = loc[u].help)
    /\ [][help_text # <<>> => help_text' = help_text]_vars

\* both callers found the cache unset, both have run "hmmscan -h", and both
\* have returned the same text, which is the cached one
C15_Witness ==
    /\ Len(probes) = 2
    /\ \A t \in DOMAIN pc :
         /\ loc[t].fn = "help" /\ pc[t] = "done" /\ loc[t].probed
         /\ outcome[t] = ReturnedText(help_text)
    /\ DOMAIN pc = Threads
    /\ help_text = HelpCpu

----------------------------------------------------------------------------
(* C16: the probe of hmmsearch *)

\* C16: however often run_hmmsearch_version is called, "hmmsearch -h" is run
\* at most once in the lifetime of the process
C16_SearchProbeOnce == search_probes <= 1

----------------------------------------------------------------------------
(* C17: the results file of run_hmmscan *)

\* the call of t has written the file its caller named
WroteResults(t) ==
    \E i \in 1..Len(written[t]) : written[t][i] = loc[t].results_file

\* C17: a call of run_hmmscan has written the results file exactly when a path
\* was given, hmmscan exited with code zero and the call is past the check of
\* the exit code (so before the parse, which is its last step); the file then
\* holds the captured stdout and is the first file the call wrote; and the
\* file changes in no other step
C17_ResultsFile ==
    /\ [](\A t \in Callers :
            loc[t].fn = "scan"
                => /\ WroteResults(t)
                        <=> /\ loc[t].results_file # NoneVal
                            /\ loc[t].ran /\ loc[t].rc = 0
                            /\ pc[t] \in {"scan_shadow", "scan_pytime", "scan_parse", "done"}
                   /\ WroteResults(t)
                        => /\ results_fs = [exists |-> TRUE, data |-> loc[t].stdout]
                           /\ written[t][1] = loc[t].results_file
                   /\ (pc[t] = "done" /\ outcome[t].kind = "returned"
                            /\ loc[t].results_file # NoneVal)
                        => WroteResults(t))
    /\ [][results_fs' # results_fs
            => \E t \in Callers :
                 /\ loc[t].fn = "scan" /\ pc[t] = "scan_check"
                 /\ loc[t].rc = 0 /\ loc[t].results_file # NoneVal
                 /\ outcome[t].kind = "none"
                 /\ results_fs' = [exists |-> TRUE, data |-> loc[t].stdout]]_vars

\* a call given a results path has ended by raising the error of a nonzero
\* exit code, with another stdout, and the file still holds what the call
\* before wrote
C17_Witness ==
    \E t \in Callers :
        /\ loc[t].fn = "scan" /\ pc[t] = "done"
        /\ loc[t].results_file # NoneVal
        /\ loc[t].ran /\ loc[t].rc = 1 /\ loc[t].stdout = OutErr
        /\ outcome[t].kind = "raised"
        /\ results_fs = [exists |-> TRUE, data |-> OutTwo]

----------------------------------------------------------------------------
(* C18: the accumulators under concurrent callers *)

\* C18: every accumulator holds the sum of the elapsed times that the calls
\* have added to it, whatever the interleaving of the callers
C18_NoLostUpdate == \A n \in TimerNames : timers[n] = added[n]

----------------------------------------------------------------------------
(* C19: the version functions *)

\* the text from position i on begins with the text p
HasAt(text, i, p) ==
    /\ i + Len(p) - 1 <= Len(text)
    /\ \A k \in 1..Len(p) : text[i + k - 1] = p[k]

\* the positions of the line feeds of the text
LineFeeds(text) == {i \in 1..Len(text) : text[i] = "\n"}

\* the second line of a text with at least one line feed: what stands between
\* the first line feed and the next one (or the end of the text)
SecondLine(text) ==
    LET first == Least(LineFeeds(text))
        later == {i \in LineFeeds(text) : i > first}
        stop == IF later = {} THEN Len(text) + 1 ELSE Least(later)
    IN  SubSeq(text, first + 1, stop - 1)

\* the positions at which a whitespace-separated field of the line begins
FieldStarts(line) ==
    {i \in 1..Len(line) :
        line[i] \notin Whitespace /\ (i = 1 \/ line[i - 1] \in Whitespace)}

\* the field of the line that begins at position i
FieldAt(line, i) ==
    LET blanks == {j \in i..Len(line) : line[j] \in Whitespace}
        stop == IF blanks = {} THEN Len(line) + 1 ELSE Least(blanks)
    IN  SubSeq(line, i, stop - 1)

\* the text has a second line with at least three fields
HasVersionShape(text) ==
    /\ LineFeeds(text) # {}
    /\ Cardinality(FieldStarts(SecondLine(text))) >= 3

\* the third field of the second line
ThirdField(text) ==
    LET line == SecondLine(text)
        starts == FieldStarts(line)
        third == CHOOSE i \in starts : Cardinality({j \in starts : j < i}) = 2
    IN  FieldAt(line, third)

\* the call of t is a version call whose help text has passed the banner check
PassedBanner(t) ==
    \/ loc[t].fn = "version" /\ loc[t].got_help
    \/ loc[t].fn = "search_version" /\ HasAt(loc[t].help, 1, SearchBanner)

\* C19: a finished call of run_hmmscan_version or run_hmmsearch_version whose
\* help text passed the banner check has returned the third
\* whitespace-separated field of the second line of that text, or, when the
\* text has no second line or fewer than three fields on it, has raised an
\* error and returned nothing
C19_VersionOrError ==
    \A t \in Callers :
        (pc[t] = "done" /\ PassedBanner(t))
            => IF HasVersionShape(loc[t].help)
               THEN outcome[t] = ReturnedText(ThirdField(loc[t].help))
               ELSE outcome[t].kind = "raised" /\ outcome[t].text = <<>>

\* run_hmmscan_version has failed on a cached help text whose second line has
\* two fields
C19_Witness ==
    \E t \in Callers :
        /\ pc[t] = "done" /\ loc[t].fn = "version"
        /\ loc[t].got_help /\ ~loc[t].probed
        /\ loc[t].help = HelpTwoFields
        /\ outcome[t] = Raised("IndexError", "version")

----------------------------------------------------------------------------
(* C20: an OSError inside the scoped block of run_hmmsearch *)

\* the call of t met an OSError inside the try block: it ended before the
\* check of the exit code, with no exception of another kind
MetOSError(t) ==
    /\ loc[t].fn = "search" /\ pc[t] = "done"
    /\ \/ ~loc[t].ran
       \/ loc[t].shadow = "oserror"

\* C20: a call of run_hmmsearch that met an OSError while writing input.fa,
\* launching hmmsearch or in the file operations of the pyhmmer section has
\* returned the empty list, whatever the exit code and whatever result.domtab
\* holds; and a call has gone from inside the try block straight to its end
\* with the empty list only in that way
C20_OSErrorReturnsEmpty ==
    /\ [](\A t \in Callers : MetOSError(t) => outcome[t] = ReturnedHits(<<>>))
    /\ [][\A t \in Callers :
            (pc[t] \in {"search_input", "search_exec", "search_shadow"}
                /\ pc'[t] = "done" /\ outcome'[t].kind = "returned")
                => (outcome'[t].hits = <<>> /\ MetOSError(t)')]_vars

\* hmmsearch exited with a nonzero code, the pyhmmer section met an OSError,
\* and the call returned the empty list although result.domtab holds rows
C20_Witness ==
    \E t \in Callers :
        /\ MetOSError(t)
        /\ loc[t].ran /\ loc[t].rc = 2 /\ loc[t].domtab = TabTwo
        /\ loc[t].shadow = "oserror"
        /\ outcome[t] = ReturnedHits(<<>>)

====
